---- MODULE Spec2Model ----
(***************************************************************************)
(* Shell tab-completion for ffcli command trees (package ffcomplete, the   *)
(* splitFlagArgs variant of Complete) together with the parts of Go's      *)
(* flag package that Complete drives: FlagSet.Parse, Lookup, Visit and     *)
(* VisitAll.                                                               *)
(*                                                                         *)
(* Strings are sequences of one-character strings, so that HasPrefix, Cut, *)
(* cutDash, EqualFold and the byte-wise ordering used by the flag package  *)
(* are computed character by character as the Go code computes them.       *)
(***************************************************************************)
EXTENDS Integers, Sequences, FiniteSets, TLC

(***************************************************************************)
(* strings package                                                         *)
(***************************************************************************)

\* The characters that occur in the model, in ascending byte order.
Ascii ==
  << "-", "0", "1", "=", "A", "B", "D", "E", "F", "G", "L", "R", "S", "T", "U",
     "a", "b", "c", "d", "e", "f", "g", "h", "i", "l", "m", "n", "o", "p", "r",
     "s", "t", "u", "v", "x" >>

Upper == << "A", "B", "D", "E", "F", "G", "L", "R", "S", "T", "U" >>

Lower == << "a", "b", "d", "e", "f", "g", "l", "r", "s", "t", "u" >>

\* The byte value of a character, up to an order-preserving renumbering.
Ord(c) == CHOOSE i \in 1..Len(Ascii) : Ascii[i] = c

\* unicode.ToLower on the ASCII letters.
ToLower(c) ==
  IF \E i \in 1..Len(Upper) : Upper[i] = c
  THEN Lower[CHOOSE i \in 1..Len(Upper) : Upper[i] = c]
  ELSE c

\* strings.EqualFold(a, b): equality under simple case folding.
EqualFold(a, b) ==
  /\ Len(a) = Len(b)
  /\ \A i \in 1..Len(a) : ToLower(a[i]) = ToLower(b[i])

\* strings.HasPrefix(s, p).
HasPrefix(s, p) ==
  /\ Len(p) <= Len(s)
  /\ \A i \in 1..Len(p) : s[i] = p[i]

\* strings.Contains(s, c) for a one-character substring c.
Contains(s, c) == \E i \in 1..Len(s) : s[i] = c

\* strings.Index(s, c) for a one-character substring c, 1-based; 0 if absent.
Index(s, c) ==
  IF Contains(s, c)
  THEN CHOOSE i \in 1..Len(s) : s[i] = c /\ \A j \in 1..(i - 1) : s[j] # c
  ELSE 0

\* strings.Cut(s, c): the text before and after the first c, and whether c
\* occurs at all.
Cut(s, c) ==
  LET i == Index(s, c)
  IN  IF i = 0
      THEN [before |-> s, after |-> << >>, found |-> FALSE]
      ELSE [before |-> SubSeq(s, 1, i - 1),
            after  |-> SubSeq(s, i + 1, Len(s)),
            found  |-> TRUE]

\* The Go string comparison a < b: lexicographic on bytes.
RECURSIVE StrLess(_, _)
StrLess(a, b) ==
  IF b = << >> THEN FALSE
  ELSE IF a = << >> THEN TRUE
  ELSE IF a[1] # b[1] THEN Ord(a[1]) < Ord(b[1])
  ELSE StrLess(Tail(a), Tail(b))

\* The decimal digits, by value.
Digits == << "0", "1", "2", "3", "4", "5", "6", "7", "8", "9" >>

\* strconv.Itoa(n) for n >= 0.
RECURSIVE Itoa(_)
Itoa(n) ==
  IF n < Len(Digits)
  THEN << Digits[n + 1] >>
  ELSE Itoa(n \div Len(Digits)) \o << Digits[(n % Len(Digits)) + 1] >>

\* cutDash(s): the leading one or two dashes of s, and the rest.
cutDash(s) ==
  IF HasPrefix(s, << "-" >>)
  THEN IF HasPrefix(Tail(s), << "-" >>)
       THEN [dashes |-> << "-", "-" >>, flag |-> SubSeq(s, 3, Len(s))]
       ELSE [dashes |-> << "-" >>, flag |-> Tail(s)]
  ELSE [dashes |-> << >>, flag |-> s]

(***************************************************************************)
(* The command tree under completion: the program of TestComplete.         *)
(***************************************************************************)

S_v == << "v" >>

S_root_bool == << "r", "o", "o", "t", "-", "b", "o", "o", "l" >>

S_root_str == << "r", "o", "o", "t", "-", "s", "t", "r" >>

S_cpu_profile == << "c", "p", "u", "-", "p", "r", "o", "f", "i", "l", "e" >>

S_debug_bool == << "d", "e", "b", "u", "g", "-", "b", "o", "o", "l" >>

S_enum == << "e", "n", "u", "m" >>

S_alpha == << "a", "l", "p", "h", "a" >>

S_beta == << "b", "e", "t", "a" >>

S_charlie == << "c", "h", "a", "r", "l", "i", "e" >>

S_deploy == << "d", "e", "p", "l", "o", "y" >>

S_debrief == << "d", "e", "b", "r", "i", "e", "f" >>

\* The subcommands that Inject gives the "completion" command it appends to
\* the root, in child order, and the names of the commands it adds.
InjectSubcommands == << "bash", "zsh", "fish", "powershell", "__complete" >>

InjectName ==
  [c \in {"completion", "bash", "zsh", "fish", "powershell", "__complete"} |->
     IF c = "completion" THEN << "c", "o", "m", "p", "l", "e", "t", "i", "o", "n" >>
     ELSE IF c = "bash" THEN << "b", "a", "s", "h" >>
     ELSE IF c = "zsh" THEN << "z", "s", "h" >>
     ELSE IF c = "fish" THEN << "f", "i", "s", "h" >>
     ELSE IF c = "powershell"
     THEN << "p", "o", "w", "e", "r", "s", "h", "e", "l", "l" >>
     ELSE << "_", "_", "c", "o", "m", "p", "l", "e", "t", "e" >>]

\* The commands, by identity (*ffcli.Command): the program's own and those
\* that Inject adds.
Cmds == {"prog", "debug"} \cup DOMAIN InjectName

root == "prog"

\* ffcli.Command.Name.
Name ==
  [c \in Cmds |->
     IF c = "prog" THEN << "p", "r", "o", "g" >>
     ELSE IF c = "debug" THEN << "d", "e", "b", "u", "g" >>
     ELSE InjectName[c]]

\* ffcli.Command.Subcommands, in child order.
Subcommands ==
  [c \in Cmds |->
     IF c = "prog" THEN << "debug", "completion" >>
     ELSE IF c = "completion" THEN InjectSubcommands
     ELSE << >>]

\* The flags defined on each command's FlagSet, in the order of the
\* fs.Bool / fs.String calls that registered them; the commands of Inject
\* have no FlagSet and Complete gives them an empty one.
Formal ==
  [c \in Cmds |->
     IF c = "prog"
     THEN << [name |-> S_v, bool |-> TRUE],
             [name |-> S_root_bool, bool |-> TRUE],
             [name |-> S_root_str, bool |-> FALSE] >>
     ELSE IF c = "debug"
     THEN << [name |-> S_cpu_profile, bool |-> FALSE],
             [name |-> S_debug_bool, bool |-> TRUE],
             [name |-> S_enum, bool |-> FALSE] >>
     ELSE << >>]

(***************************************************************************)
(* flag package                                                            *)
(***************************************************************************)

\* The result of a failed FlagSet.Lookup (a nil *flag.Flag).
NoFlag == [name |-> << >>, bool |-> FALSE]

\* The names defined on the FlagSet of command c.
FlagNames(c) == {Formal[c][i].name : i \in 1..Len(Formal[c])}

\* FlagSet.Lookup(name) on the FlagSet of command c.
Lookup(c, name) ==
  IF name \in FlagNames(c)
  THEN Formal[c][CHOOSE i \in 1..Len(Formal[c]) : Formal[c][i].name = name]
  ELSE NoFlag

\* isBoolFlag(f): whether the flag's Value implements IsBoolFlag() = true.
isBoolFlag(f) == f.bool

\* A visit in descending order of name, for contrast with sortFlags.
RECURSIVE sortFlagsDescending(_)
sortFlagsDescending(S) ==
  IF S = {} THEN << >>
  ELSE LET m == CHOOSE x \in S : \A y \in S \ {x} : StrLess(y, x)
       IN  << m >> \o sortFlagsDescending(S \ {m})

\* sortFlags: the names in S in lexicographical (byte) order, as FlagSet.Visit
\* and FlagSet.VisitAll visit them.
RECURSIVE sortFlags(_)
sortFlags(S) ==
  IF S = {} THEN << >>
  ELSE LET m == CHOOSE x \in S : \A y \in S \ {x} : StrLess(x, y)
       IN  << m >> \o sortFlags(S \ {m})

\* FlagSet.VisitAll on command c: every defined flag, sorted by name.
VisitAll(c) == sortFlags(FlagNames(c))

\* FlagSet.Visit on command c: the flags that have been set, sorted by name.
Visit(c, act) == sortFlags(act[c])

\* The spellings strconv.ParseBool accepts (boolValue.Set).
ParseBoolOK ==
  { << "1" >>, << "t" >>, << "T" >>, << "T", "R", "U", "E" >>,
    << "t", "r", "u", "e" >>, << "T", "r", "u", "e" >>,
    << "0" >>, << "f" >>, << "F" >>, << "F", "A", "L", "S", "E" >>,
    << "f", "a", "l", "s", "e" >>, << "F", "a", "l", "s", "e" >> }

S_help == << "h", "e", "l", "p" >>

S_h == << "h" >>

\* A parser for which setting a boolean flag that is already set unsets it.
RECURSIVE ParseToggling(_, _, _)
ParseToggling(c, args, set) ==
  IF args = << >> THEN [set |-> set, err |-> "nil", args |-> args]
  ELSE
    LET s == args[1]
    IN
    IF Len(s) < 2 \/ s[1] # "-"
    THEN [set |-> set, err |-> "nil", args |-> args]
    ELSE IF s = << "-", "-" >>
    THEN [set |-> set, err |-> "nil", args |-> Tail(args)]
    ELSE
      LET cd    == cutDash(s)
          eq    == Cut(cd.flag, "=")
          name  == eq.before
          flag  == Lookup(c, name)
          rest  == Tail(args)
      IN
      IF cd.flag = << >> \/ cd.flag[1] = "-" \/ cd.flag[1] = "="
      THEN [set |-> set, err |-> "bad flag syntax", args |-> args]
      ELSE IF flag = NoFlag
      THEN IF name = S_help \/ name = S_h
           THEN [set |-> set, err |-> "help requested", args |-> rest]
           ELSE [set |-> set, err |-> "flag provided but not defined",
                 args |-> rest]
      ELSE IF isBoolFlag(flag)
      THEN IF eq.found /\ eq.after \notin ParseBoolOK
           THEN [set |-> set, err |-> "invalid boolean value", args |-> rest]
           ELSE ParseToggling(c, rest,
                              IF name \in set THEN set \ {name} ELSE set \cup {name})
      ELSE IF eq.found
      THEN ParseToggling(c, rest, set \cup {name})
      ELSE IF rest = << >>
      THEN [set |-> set, err |-> "flag needs an argument", args |-> rest]
      ELSE ParseToggling(c, Tail(rest), set \cup {name})

\* FlagSet.Parse(args) on the FlagSet of command c, whose set flags are `set`:
\* parseOne repeated until a non-flag token, a bare "--" or an error.  Returns
\* the flags set afterwards (those set before an error stay set), the error
\* and the remaining arguments (FlagSet.Args).
RECURSIVE Parse(_, _, _)
Parse(c, args, set) ==
  IF args = << >> THEN [set |-> set, err |-> "nil", args |-> args]
  ELSE
    LET s == args[1]
    IN
    IF Len(s) < 2 \/ s[1] # "-"
    THEN [set |-> set, err |-> "nil", args |-> args]
    ELSE IF s = << "-", "-" >>
    THEN [set |-> set, err |-> "nil", args |-> Tail(args)]
    ELSE
      LET cd    == cutDash(s)
          eq    == Cut(cd.flag, "=")
          name  == eq.before
          flag  == Lookup(c, name)
          rest  == Tail(args)
      IN
      IF cd.flag = << >> \/ cd.flag[1] = "-" \/ cd.flag[1] = "="
      THEN [set |-> set, err |-> "bad flag syntax", args |-> args]
      ELSE IF flag = NoFlag
      THEN IF name = S_help \/ name = S_h
           THEN [set |-> set, err |-> "help requested", args |-> rest]
           ELSE [set |-> set, err |-> "flag provided but not defined",
                 args |-> rest]
      ELSE IF isBoolFlag(flag)
      THEN IF eq.found /\ eq.after \notin ParseBoolOK
           THEN [set |-> set, err |-> "invalid boolean value", args |-> rest]
           ELSE Parse(c, rest, set \cup {name})
      ELSE IF eq.found
      THEN Parse(c, rest, set \cup {name})
      ELSE IF rest = << >>
      THEN [set |-> set, err |-> "flag needs an argument", args |-> rest]
      ELSE Parse(c, Tail(rest), set \cup {name})

(***************************************************************************)
(* Shell completion directives and completers                              *)
(***************************************************************************)

ShellCompDirectiveError == 1

ShellCompDirectiveNoSpace == 2

ShellCompDirectiveNoFileComp == 4

ShellCompDirectiveFilterFileExt == 8

ShellCompDirectiveFilterDirs == 16

ShellCompDirectiveKeepOrder == 32

ShellCompDirectiveDefault == 0

\* The absence of a registered completer (a nil CompleteFunc).
NoComp == [kind |-> "none", words |-> << >>]

\* Fixed(words...): the CompleteFunc suggesting the given words.
Fixed(ws) == [kind |-> "Fixed", words |-> ws]

\* FilesWithExtensions(exts...): the CompleteFunc returning the extensions.
FilesWithExtensions(exts) == [kind |-> "FilesWithExtensions", words |-> exts]

\* A CompleteFunc written by the embedding program: it may return
\* suggestions, return an error, or panic.
UserComp == [kind |-> "user", words |-> << >>]

\* The words of ws that have the given prefix, in order (the loop of Fixed).
RECURSIVE FilterPrefix(_, _)
FilterPrefix(ws, prefix) ==
  IF ws = << >> THEN << >>
  ELSE (IF HasPrefix(ws[1], prefix) THEN << ws[1] >> ELSE << >>)
       \o FilterPrefix(Tail(ws), prefix)

\* What a call comp(word) can do: the set of its possible outcomes.
CallComp(comp, word) ==
  IF comp.kind = "Fixed"
  THEN {[kind |-> "ok", words |-> FilterPrefix(comp.words, word),
         dir |-> ShellCompDirectiveNoFileComp]}
  ELSE IF comp.kind = "FilesWithExtensions"
  THEN {[kind |-> "ok", words |-> comp.words,
         dir |-> ShellCompDirectiveFilterFileExt]}
  ELSE {[kind |-> "ok", words |-> << << "x" >> >>,
         dir |-> ShellCompDirectiveFilterDirs],
        [kind |-> "err", words |-> << >>, dir |-> ShellCompDirectiveDefault],
        [kind |-> "panic", words |-> << >>, dir |-> ShellCompDirectiveDefault]}

\* The keys of completeFlags: a *flag.Flag is a flag of one command's FlagSet.
FlagKeys == UNION {{<< c, n >> : n \in FlagNames(c)} : c \in Cmds}

(***************************************************************************)
(* Complete, the splitFlagArgs variant                                     *)
(***************************************************************************)

\* The loop without its test for the last token: a non-boolean flag takes the
\* token after it as its value even when there is none.
RECURSIVE splitFromValueTaken(_, _, _)
splitFromValueTaken(c, args, i) ==
  IF i > Len(args)
  THEN [flagArgs |-> args, argArgs |-> << >>, flagNeedingValue |-> << >>]
  ELSE
    LET a    == args[i]
        cd   == cutDash(a)
        flag == Lookup(c, cd.flag)
    IN
    IF a = << "-", "-" >>
    THEN [flagArgs |-> SubSeq(args, 1, i - 1),
          argArgs |-> SubSeq(args, i + 1, Len(args)),
          flagNeedingValue |-> << >>]
    ELSE IF cd.dashes = << >>
    THEN [flagArgs |-> SubSeq(args, 1, i - 1),
          argArgs |-> SubSeq(args, i, Len(args)),
          flagNeedingValue |-> << >>]
    ELSE IF Contains(cd.flag, "=")
    THEN splitFromValueTaken(c, args, i + 1)
    ELSE IF flag = NoFlag
    THEN [flagArgs |-> SubSeq(args, 1, i - 1),
          argArgs |-> SubSeq(args, i, Len(args)),
          flagNeedingValue |-> << >>]
    ELSE IF isBoolFlag(flag)
    THEN splitFromValueTaken(c, args, i + 1)
    ELSE splitFromValueTaken(c, args, i + 2)

\* The loop taking every known flag without "=", boolean or not, to consume
\* the token after it.
RECURSIVE splitFromBoolTakesValue(_, _, _)
splitFromBoolTakesValue(c, args, i) ==
  IF i > Len(args)
  THEN [flagArgs |-> args, argArgs |-> << >>, flagNeedingValue |-> << >>]
  ELSE
    LET a    == args[i]
        cd   == cutDash(a)
        flag == Lookup(c, cd.flag)
    IN
    IF a = << "-", "-" >>
    THEN [flagArgs |-> SubSeq(args, 1, i - 1),
          argArgs |-> SubSeq(args, i + 1, Len(args)),
          flagNeedingValue |-> << >>]
    ELSE IF cd.dashes = << >> \/ (~Contains(cd.flag, "=") /\ flag = NoFlag)
    THEN [flagArgs |-> SubSeq(args, 1, i - 1),
          argArgs |-> SubSeq(args, i, Len(args)),
          flagNeedingValue |-> << >>]
    ELSE IF Contains(cd.flag, "=")
    THEN splitFromBoolTakesValue(c, args, i + 1)
    ELSE IF i = Len(args)
    THEN [flagArgs |-> SubSeq(args, 1, i - 1),
          argArgs |-> << >>,
          flagNeedingValue |-> args[i]]
    ELSE splitFromBoolTakesValue(c, args, i + 2)

\* The loop of splitFlagArgs from index i on (1-based).
RECURSIVE splitFrom(_, _, _)
splitFrom(c, args, i) ==
  IF i > Len(args)
  THEN [flagArgs |-> args, argArgs |-> << >>, flagNeedingValue |-> << >>]
  ELSE
    LET a    == args[i]
        cd   == cutDash(a)
        flag == Lookup(c, cd.flag)
    IN
    IF a = << "-", "-" >>
    THEN [flagArgs |-> SubSeq(args, 1, i - 1),
          argArgs |-> SubSeq(args, i + 1, Len(args)),
          flagNeedingValue |-> << >>]
    ELSE IF cd.dashes = << >>
    THEN [flagArgs |-> SubSeq(args, 1, i - 1),
          argArgs |-> SubSeq(args, i, Len(args)),
          flagNeedingValue |-> << >>]
    ELSE IF Contains(cd.flag, "=")
    THEN splitFrom(c, args, i + 1)
    ELSE IF flag = NoFlag
    THEN [flagArgs |-> SubSeq(args, 1, i - 1),
          argArgs |-> SubSeq(args, i, Len(args)),
          flagNeedingValue |-> << >>]
    ELSE IF isBoolFlag(flag)
    THEN splitFrom(c, args, i + 1)
    ELSE IF i = Len(args)
    THEN [flagArgs |-> SubSeq(args, 1, i - 1),
          argArgs |-> << >>,
          flagNeedingValue |-> args[i]]
    ELSE splitFrom(c, args, i + 2)

\* A split that leaves the first argument out of argArgs.
splitFlagArgsDropFirstArg(c, args) ==
  LET sp == splitFrom(c, args, 1)
  IN  [sp EXCEPT !.argArgs = IF sp.argArgs = << >> THEN << >> ELSE Tail(sp.argArgs)]

\* splitFlagArgs(fs, args) for the FlagSet of command c.
splitFlagArgs(c, args) == splitFrom(c, args, 1)

\* A match of the token against the beginning of a subcommand's name.
MatchSubPrefix(c, tok) ==
  LET hits == {i \in 1..Len(Subcommands[c]) : HasPrefix(Name[Subcommands[c][i]], tok)}
  IN  IF hits = {} THEN ""
      ELSE Subcommands[c][CHOOSE i \in hits : \A j \in hits : i <= j]

\* The first subcommand of c, in child order, whose name equals the token
\* under case folding; "" if there is none.
MatchSub(c, tok) ==
  LET hits == {i \in 1..Len(Subcommands[c]) : EqualFold(Name[Subcommands[c][i]], tok)}
  IN  IF hits = {} THEN ""
      ELSE Subcommands[c][CHOOSE i \in hits : \A j \in hits : i <= j]

\* A walk that never leaves the command it starts at.
WalkNoDescent(c, args, completeArg, act) ==
  LET sp   == splitFlagArgs(c, args)
      ca   == IF sp.flagNeedingValue # << >>
              THEN sp.flagNeedingValue \o << "=" >> \o completeArg
              ELSE completeArg
      p    == Parse(c, sp.flagArgs, act[c])
      here == [cmd |-> c, args |-> sp.argArgs, completeArg |-> ca,
               actual |-> [act EXCEPT ![c] = p.set], err |-> "nil",
               NArg |-> Len(p.args), level |-> args, split |-> sp]
  IN  IF p.err # "nil" THEN [here EXCEPT !.err = "flag parsing"] ELSE here

\* The walk loop of Complete from command c: splits and parses the flags of
\* each level and descends into the subcommand named by the first argument.
\* act is the set flags of every FlagSet; the walk's Parse calls update it.
\* The result describes the level the walk stopped at: the command, the
\* arguments left over, the token to complete, the arguments the level began
\* with and how splitFlagArgs split them.
RECURSIVE Walk(_, _, _, _)
Walk(c, args, completeArg, act) ==
  LET sp   == splitFlagArgs(c, args)
      ca   == IF sp.flagNeedingValue # << >>
              THEN sp.flagNeedingValue \o << "=" >> \o completeArg
              ELSE completeArg
      p    == Parse(c, sp.flagArgs, act[c])
      act2 == [act EXCEPT ![c] = p.set]
      sub  == MatchSub(c, sp.argArgs[1])
      here == [cmd |-> c, args |-> sp.argArgs, completeArg |-> ca,
               actual |-> act2, err |-> "nil", NArg |-> Len(p.args),
               level |-> args, split |-> sp]
  IN
  IF p.err # "nil" THEN [here EXCEPT !.err = "flag parsing"]
  ELSE IF sp.argArgs = << >> THEN here
  ELSE IF sub # "" THEN Walk(sub, Tail(sp.argArgs), ca, act2)
  ELSE here

\* The spellings Complete offers for a boolean flag's value, by group.
TrueVals ==
  << << "t", "r", "u", "e" >>, << "T", "R", "U", "E" >>,
     << "T", "r", "u", "e" >>, << "1" >> >>

FalseVals ==
  << << "f", "a", "l", "s", "e" >>, << "F", "A", "L", "S", "E" >>,
     << "F", "a", "l", "s", "e" >>, << "0" >> >>

\* The inner loop without its break: every spelling that has the prefix.
FirstWithPrefixNoBreak(vals, completeVal) == FilterPrefix(vals, completeVal)

\* The inner loop over one group of spellings: the first one that has the
\* prefix is appended, then the loop breaks.
RECURSIVE FirstWithPrefix(_, _)
FirstWithPrefix(vals, completeVal) ==
  IF vals = << >> THEN << >>
  ELSE IF HasPrefix(vals[1], completeVal) THEN << vals[1] >>
  ELSE FirstWithPrefix(Tail(vals), completeVal)

\* The outer loop with the two groups in the other order.
BoolWordsFalseFirst(completeVal) ==
  FirstWithPrefix(FalseVals, completeVal) \o FirstWithPrefix(TrueVals, completeVal)

\* "Complete true/false": the outer loop over the two groups.
BoolWords(completeVal) ==
  FirstWithPrefix(TrueVals, completeVal) \o FirstWithPrefix(FalseVals, completeVal)

\* The callback with the double dash chosen by the length of the name alone,
\* whatever has been typed after the dash.
RECURSIVE FlagWordsOfByLength(_, _, _, _)
FlagWordsOfByLength(fs, cd, cf, used) ==
  IF fs = << >> THEN << >>
  ELSE
    LET name == fs[1]
        d    == IF (cd = << >> \/ cd = << "-" >>) /\ Len(name) > 1
                THEN << "-", "-" >>
                ELSE cd
    IN  (IF ~HasPrefix(name, cf) THEN << >>
         ELSE IF name \in used THEN << >>
         ELSE << d \o name >>)
        \o FlagWordsOfByLength(Tail(fs), cd, cf, used)

\* The callback passed to VisitAll, applied to the flag names fs in turn.
RECURSIVE FlagWordsOf(_, _, _, _)
FlagWordsOf(fs, cd, cf, used) ==
  IF fs = << >> THEN << >>
  ELSE
    LET name == fs[1]
        d    == IF (cd = << >> \/ cd = << "-" >>) /\ cf = << >> /\ Len(name) > 1
                THEN << "-", "-" >>
                ELSE cd
    IN  (IF ~HasPrefix(name, cf) THEN << >>
         ELSE IF name \in used THEN << >>
         ELSE << d \o name >>)
        \o FlagWordsOf(Tail(fs), cd, cf, used)

\* "Complete '-flag...'": the flag names suggested for completeArg on c.
FlagWords(c, completeArg, act) ==
  LET used == {Visit(c, act)[i] : i \in 1..Len(Visit(c, act))}
      cut  == cutDash(completeArg)
  IN  FlagWordsOf(VisitAll(c), cut.dashes, cut.flag, used)

\* "Complete 'sub...'": the subcommands of c whose name has the prefix.
RECURSIVE SubWordsOf(_, _)
SubWordsOf(subs, completeArg) ==
  IF subs = << >> THEN << >>
  ELSE (IF HasPrefix(Name[subs[1]], completeArg) THEN << Name[subs[1]] >> ELSE << >>)
       \o SubWordsOf(Tail(subs), completeArg)

SubWords(c, completeArg) == SubWordsOf(Subcommands[c], completeArg)

\* The stages after the walk with emitArgs left set in the flag-value stage:
\* the subcommand and argument stage runs after a flag's value is completed.
SuggestArgsAfterValue(w, cFlags, cCmds) ==
  LET cmd      == w.cmd
      ca       == w.completeArg
      emitFlag == w.args = << >>
      isValue  == emitFlag /\ HasPrefix(ca, << "-" >>) /\ Contains(ca, "=")
      cutv     == Cut(ca, "=")
      f        == cutDash(cutv.before).flag
      flag     == Lookup(cmd, f)
      fcomp    == IF flag # NoFlag THEN cFlags[<< cmd, f >>] ELSE NoComp
      fwords   == IF emitFlag /\ ~isValue THEN FlagWords(cmd, ca, w.actual) ELSE << >>
      acomp    == cCmds[cmd]
      Res(ws, d, e) == [words |-> ws, dir |-> d, err |-> e, actual |-> w.actual]
      Args(r)  == IF r.err # "nil" THEN {r}
                  ELSE IF acomp = NoComp
                  THEN {Res(r.words \o SubWords(cmd, ca), r.dir, "nil")}
                  ELSE {IF o.kind = "ok"
                        THEN Res(r.words \o SubWords(cmd, ca) \o o.words, o.dir, "nil")
                        ELSE IF o.kind = "err"
                        THEN Res(<< >>, ShellCompDirectiveDefault, "completing args")
                        ELSE Res(r.words \o SubWords(cmd, ca), r.dir, "panicking")
                        : o \in CallComp(acomp, ca)}
      value    == IF ~isValue
                  THEN {Res(fwords, ShellCompDirectiveDefault, "nil")}
                  ELSE IF fcomp # NoComp
                  THEN {IF o.kind = "ok" THEN Res(o.words, o.dir, "nil")
                        ELSE IF o.kind = "err"
                        THEN Res(<< >>, ShellCompDirectiveDefault, "completing flag")
                        ELSE Res(<< >>, ShellCompDirectiveDefault, "panicking")
                        : o \in CallComp(fcomp, cutv.after)}
                  ELSE IF flag # NoFlag /\ isBoolFlag(flag)
                  THEN {Res(BoolWords(cutv.after), ShellCompDirectiveDefault, "nil")}
                  ELSE {Res(<< >>, ShellCompDirectiveDefault, "nil")}
  IN  UNION {Args(r) : r \in value}

\* The stages after the walk with the subcommand names put before the flag
\* names.
SuggestSubcommandsFirst(w, cFlags, cCmds) ==
  LET cmd      == w.cmd
      ca       == w.completeArg
      emitFlag == w.args = << >>
      isValue  == emitFlag /\ HasPrefix(ca, << "-" >>) /\ Contains(ca, "=")
      cutv     == Cut(ca, "=")
      f        == cutDash(cutv.before).flag
      flag     == Lookup(cmd, f)
      fcomp    == IF flag # NoFlag THEN cFlags[<< cmd, f >>] ELSE NoComp
      fwords   == IF emitFlag THEN FlagWords(cmd, ca, w.actual) ELSE << >>
      swords   == SubWords(cmd, ca) \o fwords
      acomp    == cCmds[cmd]
      Res(ws, d, e) == [words |-> ws, dir |-> d, err |-> e, actual |-> w.actual]
  IN
  IF isValue
  THEN IF fcomp # NoComp
       THEN {IF o.kind = "ok" THEN Res(o.words, o.dir, "nil")
             ELSE IF o.kind = "err"
             THEN Res(<< >>, ShellCompDirectiveDefault, "completing flag")
             ELSE Res(<< >>, ShellCompDirectiveDefault, "panicking")
             : o \in CallComp(fcomp, cutv.after)}
       ELSE IF flag # NoFlag /\ isBoolFlag(flag)
       THEN {Res(BoolWords(cutv.after), ShellCompDirectiveDefault, "nil")}
       ELSE {Res(<< >>, ShellCompDirectiveDefault, "nil")}
  ELSE IF acomp # NoComp
       THEN {IF o.kind = "ok" THEN Res(swords \o o.words, o.dir, "nil")
             ELSE IF o.kind = "err"
             THEN Res(<< >>, ShellCompDirectiveDefault, "completing args")
             ELSE Res(swords, ShellCompDirectiveDefault, "panicking")
             : o \in CallComp(acomp, ca)}
       ELSE {Res(swords, ShellCompDirectiveDefault, "nil")}

\* The part of Complete after the walk, for a walk w that did not fail: the
\* set of possible results (one per outcome of the completer it invokes).  A
\* result with err "panicking" is a panic of the completer on its way out.
Suggest(w, cFlags, cCmds) ==
  LET cmd      == w.cmd
      ca       == w.completeArg
      emitFlag == w.args = << >>
      isValue  == emitFlag /\ HasPrefix(ca, << "-" >>) /\ Contains(ca, "=")
      cutv     == Cut(ca, "=")
      f        == cutDash(cutv.before).flag
      flag     == Lookup(cmd, f)
      fcomp    == IF flag # NoFlag THEN cFlags[<< cmd, f >>] ELSE NoComp
      fwords   == IF emitFlag THEN FlagWords(cmd, ca, w.actual) ELSE << >>
      swords   == fwords \o SubWords(cmd, ca)
      acomp    == cCmds[cmd]
      Res(ws, d, e) == [words |-> ws, dir |-> d, err |-> e, actual |-> w.actual]
  IN
  IF isValue
  THEN IF fcomp # NoComp
       THEN {IF o.kind = "ok" THEN Res(o.words, o.dir, "nil")
             ELSE IF o.kind = "err"
             THEN Res(<< >>, ShellCompDirectiveDefault, "completing flag")
             ELSE Res(<< >>, ShellCompDirectiveDefault, "panicking")
             : o \in CallComp(fcomp, cutv.after)}
       ELSE IF flag # NoFlag /\ isBoolFlag(flag)
       THEN {Res(BoolWords(cutv.after), ShellCompDirectiveDefault, "nil")}
       ELSE {Res(<< >>, ShellCompDirectiveDefault, "nil")}
  ELSE IF acomp # NoComp
       THEN {IF o.kind = "ok" THEN Res(swords \o o.words, o.dir, "nil")
             ELSE IF o.kind = "err"
             THEN Res(<< >>, ShellCompDirectiveDefault, "completing args")
             ELSE Res(swords, ShellCompDirectiveDefault, "panicking")
             : o \in CallComp(acomp, ca)}
       ELSE {Res(swords, ShellCompDirectiveDefault, "nil")}

\* A deferred function that does not call recover.
RecoverNothing(r) == r

\* A recover that also reports the panic through the Error directive.
RecoverErrorDirective(r) ==
  IF r.err = "panicking"
  THEN [r EXCEPT !.err = "panic", !.dir = ShellCompDirectiveError]
  ELSE r

\* The function Complete defers: it stops a panic that unwinds out of the
\* body (err "panicking", the named results as they stand) and makes the call
\* return the error "panic: ..." in its place.
Recover(r) == IF r.err = "panicking" THEN [r EXCEPT !.err = "panic"] ELSE r

\* Complete(root, args) on a tree whose FlagSets have the set flags act, with
\* the registries cFlags (completeFlags) and cCmds (completeCmds): the set of
\* possible results, each with the set flags the call leaves behind.
Complete(args, act, cFlags, cCmds) ==
  LET args1       == IF Len(args) = 0 THEN << << >> >> ELSE args
      completeArg == args1[Len(args1)]
      w           == Walk(root, SubSeq(args1, 1, Len(args1) - 1), completeArg, act)
  IN  IF w.err # "nil"
      THEN {[words |-> << >>, dir |-> ShellCompDirectiveDefault,
             err |-> w.err, actual |-> w.actual]}
      ELSE {Recover(r) : r \in Suggest(w, cFlags, cCmds)}

(***************************************************************************)
(* Complete, the "--"-sentinel variant                                     *)
(***************************************************************************)

\* The walk loop from command c: parses args, whose last element is the
\* sentinel, with the FlagSet of each level and descends into the subcommand
\* named by the first remaining argument.  The result describes the level the
\* walk stopped at: the command and FlagSet.Args() as the loop left them.
RECURSIVE WalkSentinel(_, _, _)
WalkSentinel(c, args, act) ==
  LET p    == Parse(c, args, act[c])
      act2 == [act EXCEPT ![c] = p.set]
      sub  == MatchSub(c, p.args[1])
      here == [cmd |-> c, args |-> p.args, actual |-> act2, err |-> "nil"]
  IN
  IF p.err # "nil" THEN [here EXCEPT !.err = "flag parsing"]
  ELSE IF Len(p.args) = 0 \/ (Len(p.args) = 1 /\ p.args[1] = << "-", "-" >>) THEN here
  ELSE IF sub # "" THEN WalkSentinel(sub, Tail(p.args), act2)
  ELSE here

\* The part of Complete after the walk, for a walk w that did not fail and
\* the token completeArg under completion: the set of possible results.
SuggestSentinel(w, completeArg, cFlags, cCmds) ==
  LET cmd          == w.cmd
      completeFlag == /\ completeArg = << >> \/ HasPrefix(completeArg, << "-" >>)
                      /\ ~(Len(w.args) > 0 /\ w.args[Len(w.args)] = << "-", "-" >>)
      cutv         == Cut(completeArg, "=")
      isValue      == completeFlag /\ cutv.found
      flagName     == cutDash(cutv.before).flag
      flag         == Lookup(cmd, flagName)
      fcomp        == IF flag # NoFlag THEN cFlags[<< cmd, flagName >>] ELSE NoComp
      fwords       == IF completeFlag THEN FlagWords(cmd, completeArg, w.actual) ELSE << >>
      swords       == fwords \o SubWords(cmd, completeArg)
      acomp        == cCmds[cmd]
      Res(ws, d, e) == [words |-> ws, dir |-> d, err |-> e, actual |-> w.actual]
  IN
  IF isValue
  THEN IF fcomp # NoComp
       THEN {IF o.kind = "ok" THEN Res(o.words, o.dir, "nil")
             ELSE IF o.kind = "err"
             THEN Res(<< >>, ShellCompDirectiveDefault, "completing flag")
             ELSE Res(<< >>, ShellCompDirectiveDefault, "panicking")
             : o \in CallComp(fcomp, cutv.after)}
       ELSE IF flag # NoFlag /\ isBoolFlag(flag)
       THEN {Res(BoolWords(cutv.after), ShellCompDirectiveDefault, "nil")}
       ELSE {Res(<< >>, ShellCompDirectiveDefault, "nil")}
  ELSE IF acomp # NoComp
       THEN {IF o.kind = "ok" THEN Res(swords \o o.words, o.dir, "nil")
             ELSE IF o.kind = "err"
             THEN Res(<< >>, ShellCompDirectiveDefault, "completing args")
             ELSE Res(swords, ShellCompDirectiveDefault, "panicking")
             : o \in CallComp(acomp, completeArg)}
       ELSE {Res(swords, ShellCompDirectiveDefault, "nil")}

\* Complete(root, args) of the sentinel variant: the set of possible results,
\* each with the set flags the call leaves behind and, as args, the elements
\* of the slice the caller passed as the call leaves them.
CompleteSentinel(args, act, cFlags, cCmds) ==
  LET args1       == IF Len(args) = 0 THEN << << >> >> ELSE args
      completeArg == args1[Len(args1)]
      args2       == [args1 EXCEPT ![Len(args1)] = << "-", "-" >>]
      w           == WalkSentinel(root, args2, act)
      caller      == IF Len(args) = 0 THEN args ELSE args2
      rs          == IF w.err # "nil"
                     THEN {[words |-> << >>, dir |-> ShellCompDirectiveDefault,
                            err |-> w.err, actual |-> w.actual]}
                     ELSE SuggestSentinel(w, completeArg, cFlags, cCmds)
  IN  {[words |-> r.words, dir |-> r.dir, err |-> Recover(r).err,
        actual |-> r.actual, args |-> caller] : r \in rs}

(***************************************************************************)
(* The requests considered                                                 *)
(***************************************************************************)

DD == << "-", "-" >>

\* Tokens a user can have typed before the token under completion.
TypedTokens ==
  { DD,
    DD \o S_root_str,
    DD \o S_root_str \o << "=", "s" >>,
    << "-" >> \o S_v,
    DD \o S_root_bool,
    DD \o S_enum,
    << "d", "e", "b", "u", "g" >>,
    << "D", "E", "B", "U", "G" >>,
    InjectName["completion"],
    << "d", "e", "b" >>,
    DD \o << "n", "o", "p", "e" >>,
    DD \o << "n", "o", "p", "e", "=", "1" >> }

\* Tokens under completion (the last element of args).
FinalTokens ==
  { << >>,
    << "-" >>,
    DD,
    << "-", "r" >>,
    DD \o << "r" >>,
    DD \o << "r", "o", "o", "t" >>,
    << "d", "e", "b" >>,
    << "a", "l" >>,
    DD \o S_root_bool \o << "=" >>,
    DD \o S_root_bool \o << "=", "t" >>,
    DD \o S_root_bool \o << "=", "T" >>,
    << "-" >> \o S_v \o << "=", "F" >>,
    DD \o S_root_str \o << "=" >>,
    DD \o S_enum \o << "=" >>,
    DD \o S_enum \o << "=", "a", "l" >>,
    DD \o S_cpu_profile \o << "=" >> }

\* The most tokens typed before the token under completion.
MaxTyped == 2

\* All sequences over S of length at most n.
RECURSIVE SeqsUpTo(_, _)
SeqsUpTo(S, n) ==
  IF n = 0 THEN {<< >>}
  ELSE LET shorter == SeqsUpTo(S, n - 1)
       IN  shorter \cup {<< t >> \o q : t \in S, q \in {x \in shorter : Len(x) = n - 1}}

\* Longer requests: the long row of the table of TestComplete and the same
\* shape below a subcommand.
TableArgs ==
  { << DD \o S_root_str, DD, DD, DD \o << "r" >> >>,
    << << "d", "e", "b", "u", "g" >>, DD \o S_enum, DD, DD, DD \o << "d", "e" >> >> }

\* The argument vectors handed to Complete: the empty vector, every typed
\* prefix followed by a token under completion, and the table's long rows.
Requests ==
  {<< >>} \cup {q \o << t >> : q \in SeqsUpTo(TypedTokens, MaxTyped), t \in FinalTokens}
          \cup TableArgs

(***************************************************************************)
(* State                                                                   *)
(***************************************************************************)

VARIABLES
  actual,         \* per command, the flags set on its FlagSet (FlagSet.actual)
  completeFlags,  \* the registry of flag completers
  completeCmds,   \* the registry of argument completers
  pc,             \* "idle", "returned" (from Complete), "exited" (__complete)
                  \* or "panicked" (a panic left Complete)
  args,           \* the argument vector of the last request
  words,          \* Complete's result: the suggestions
  dir,            \* Complete's result: the directive
  err,            \* Complete's result: "nil" or the kind of error
  stdout,         \* the characters __complete wrote to standard output
  callerArgs,     \* the elements of the slice the caller passed, after the call
  actualBefore,   \* the flags set on each FlagSet when the call began
  walk,           \* the level at which the walk of the last request stops, as
                  \* the splitFlagArgs variant resolves it
  flagCalls       \* the calls of Flag made so far, each << key, completer >>

vars == << actual, completeFlags, completeCmds, pc, args, words, dir, err, stdout,
           callerArgs, actualBefore, walk, flagCalls >>

\* The walk of the splitFlagArgs variant for the argument vector a.
WalkOf(a, act) ==
  Walk(root, SubSeq(a, 1, Len(a) - 1), IF a = << >> THEN << >> ELSE a[Len(a)], act)

\* The program as constructed: no flag set; the enum flag and the arguments of
\* the root complete with Fixed, cpu-profile and the arguments of debug with
\* the program's own completers.
Init ==
  /\ actual = [c \in Cmds |-> {}]
  /\ completeFlags =
       [k \in FlagKeys |->
          IF k = << "debug", S_enum >> THEN Fixed(<< S_alpha, S_beta, S_charlie >>)
          ELSE IF k = << "debug", S_cpu_profile >> THEN UserComp
          ELSE NoComp]
  /\ completeCmds =
       [c \in Cmds |->
          IF c = "debug" THEN UserComp
          ELSE IF c = root THEN Fixed(<< S_deploy, S_debrief >>)
          ELSE NoComp]
  /\ pc = "idle"
  /\ args = << >>
  /\ words = << >>
  /\ dir = ShellCompDirectiveDefault
  /\ err = "nil"
  /\ stdout = << >>
  /\ callerArgs = << >>
  /\ actualBefore = [c \in Cmds |-> {}]
  /\ walk = WalkOf(<< >>, [c \in Cmds |-> {}])
  /\ flagCalls = << << << "debug", S_enum >>, Fixed(<< S_alpha, S_beta, S_charlie >>) >>,
                    << << "debug", S_cpu_profile >>, UserComp >> >>

\* A caller invokes Complete(root, a) and receives its results.
CallComplete ==
  /\ pc = "idle"
  /\ \E a \in Requests :
       \E r \in Complete(a, actual, completeFlags, completeCmds) :
         /\ args' = a
         /\ words' = r.words
         /\ dir' = r.dir
         /\ err' = r.err
         /\ actual' = r.actual
         /\ callerArgs' = a
         /\ walk' = WalkOf(a, actual)
         /\ pc' = IF r.err = "panicking" THEN "panicked" ELSE "returned"
  /\ actualBefore' = actual
  /\ UNCHANGED << completeFlags, completeCmds, stdout, flagCalls >>

\* fmt.Println(s): the text written to standard output.
Println(s) == s \o << "\n" >>

\* A loop printing the words on one line, a space after each.
RECURSIVE PrintWordsOneLine(_)
PrintWordsOneLine(ws) ==
  IF ws = << >> THEN << >> ELSE ws[1] \o << " " >> \o PrintWordsOneLine(Tail(ws))

\* The loop printing one word per line.
RECURSIVE PrintWords(_)
PrintWords(ws) ==
  IF ws = << >> THEN << >> ELSE Println(ws[1]) \o PrintWords(Tail(ws))

\* The Exec of the __complete subcommand: calls Complete and, unless it
\* failed, prints the words and then the directive line.
Exec ==
  /\ pc = "idle"
  /\ \E a \in Requests :
       \E r \in Complete(a, actual, completeFlags, completeCmds) :
         /\ args' = a
         /\ words' = r.words
         /\ dir' = r.dir
         /\ err' = r.err
         /\ actual' = r.actual
         /\ stdout' = IF r.err # "nil" THEN << >>
                      ELSE PrintWords(r.words) \o Println(<< ":" >> \o Itoa(r.dir))
         /\ callerArgs' = a
         /\ walk' = WalkOf(a, actual)
         /\ pc' = IF r.err = "panicking" THEN "panicked" ELSE "exited"
  /\ actualBefore' = actual
  /\ UNCHANGED << completeFlags, completeCmds, flagCalls >>

\* The caller of Complete goes on to its next request on the same tree.
Return ==
  /\ pc = "returned"
  /\ pc' = "idle"
  /\ args' = << >>
  /\ words' = << >>
  /\ dir' = ShellCompDirectiveDefault
  /\ err' = "nil"
  /\ callerArgs' = << >>
  /\ actualBefore' = actual
  /\ walk' = WalkOf(<< >>, actual)
  /\ UNCHANGED << actual, completeFlags, completeCmds, stdout, flagCalls >>

\* The process that ran __complete ends; the next one builds the tree anew.
Exit ==
  /\ pc = "exited"
  /\ pc' = "idle"
  /\ actual' = [c \in Cmds |-> {}]
  /\ args' = << >>
  /\ words' = << >>
  /\ dir' = ShellCompDirectiveDefault
  /\ err' = "nil"
  /\ stdout' = << >>
  /\ callerArgs' = << >>
  /\ actualBefore' = [c \in Cmds |-> {}]
  /\ walk' = WalkOf(<< >>, [c \in Cmds |-> {}])
  /\ UNCHANGED << completeFlags, completeCmds, flagCalls >>

Next == CallComplete \/ Exec \/ Return \/ Exit

Spec == Init /\ [][Next]_vars

\* A program that only calls Complete, time after time on the one tree it
\* built, as TestComplete does.
NextCalls == CallComplete \/ Return

SpecCalls == Init /\ [][NextCalls]_vars

\* A caller invokes Complete(root, a) of the sentinel variant.
CallCompleteSentinel ==
  /\ pc = "idle"
  /\ \E a \in Requests :
       \E r \in CompleteSentinel(a, actual, completeFlags, completeCmds) :
         /\ args' = a
         /\ words' = r.words
         /\ dir' = r.dir
         /\ err' = r.err
         /\ actual' = r.actual
         /\ callerArgs' = r.args
         /\ walk' = WalkOf(a, actual)
         /\ pc' = IF r.err = "panicking" THEN "panicked" ELSE "returned"
  /\ actualBefore' = actual
  /\ UNCHANGED << completeFlags, completeCmds, stdout, flagCalls >>

\* The Exec of the __complete subcommand of the sentinel variant.
ExecSentinel ==
  /\ pc = "idle"
  /\ \E a \in Requests :
       \E r \in CompleteSentinel(a, actual, completeFlags, completeCmds) :
         /\ args' = a
         /\ words' = r.words
         /\ dir' = r.dir
         /\ err' = r.err
         /\ actual' = r.actual
         /\ callerArgs' = r.args
         /\ stdout' = IF r.err # "nil" THEN << >>
                      ELSE PrintWords(r.words) \o Println(<< ":" >> \o Itoa(r.dir))
         /\ walk' = WalkOf(a, actual)
         /\ pc' = IF r.err = "panicking" THEN "panicked" ELSE "exited"
  /\ actualBefore' = actual
  /\ UNCHANGED << completeFlags, completeCmds, flagCalls >>

NextSentinel == CallCompleteSentinel \/ ExecSentinel \/ Return \/ Exit

SpecSentinel == Init /\ [][NextSentinel]_vars

(***************************************************************************)
(* Registration through Flag                                               *)
(***************************************************************************)

\* The most calls of Flag a program makes.
MaxFlagCalls == 4

\* A registration that keeps the completer a flag already has.
FlagRegisterIfAbsent(cf, k, comp) == IF cf[k] = NoComp THEN [cf EXCEPT ![k] = comp] ELSE cf

\* The map write of Flag, completeFlags[f] = comp.
FlagRegister(cf, k, comp) == [cf EXCEPT ![k] = comp]

\* The completers handed to Flag; NoComp is a nil CompleteFunc.
RegComps ==
  {Fixed(<< S_alpha, S_beta, S_charlie >>), Fixed(<< S_deploy, S_debrief >>), UserComp, NoComp}

\* The flag names handed to Flag: those of the flag set and one it lacks.
RegNames(c) == FlagNames(c) \cup {<< "n", "o", "p", "e" >>}

\* Flag(fs, name, comp) for the flag set of command c: panics when fs has no
\* flag of that name, otherwise writes the completer into the registry.
Flag ==
  /\ pc = "idle"
  /\ Len(flagCalls) < MaxFlagCalls
  /\ \E c \in {root, "debug"} : \E n \in RegNames(c) : \E comp \in RegComps :
       IF Lookup(c, n) = NoFlag
       THEN /\ pc' = "panicked"
            /\ UNCHANGED << completeFlags, flagCalls >>
       ELSE /\ completeFlags' = FlagRegister(completeFlags, << c, n >>, comp)
            /\ flagCalls' = Append(flagCalls, << << c, n >>, comp >>)
            /\ pc' = pc
  /\ UNCHANGED << actual, completeCmds, args, words, dir, err, stdout,
                  callerArgs, actualBefore, walk >>

\* The requests that complete the value of one flag of one command.
ValueRequests ==
  {(IF k[1] = root THEN << >> ELSE << Name[k[1]] >>) \o << DD \o k[2] \o << "=" >> \o v >> :
     k \in FlagKeys, v \in {<< >>, << "d", "e" >>}}

\* A caller invokes Complete(root, a) to complete a flag's value.
CallCompleteValue ==
  /\ pc = "idle"
  /\ \E a \in ValueRequests :
       \E r \in Complete(a, actual, completeFlags, completeCmds) :
         /\ args' = a
         /\ words' = r.words
         /\ dir' = r.dir
         /\ err' = r.err
         /\ actual' = r.actual
         /\ callerArgs' = a
         /\ walk' = WalkOf(a, actual)
         /\ pc' = IF r.err = "panicking" THEN "panicked" ELSE "returned"
  /\ actualBefore' = actual
  /\ UNCHANGED << completeFlags, completeCmds, stdout, flagCalls >>

NextFlag == Flag \/ CallCompleteValue \/ Return

SpecFlag == Init /\ [][NextFlag]_vars

(***************************************************************************)
(* Package ffauto: Complete and Arg                                        *)
(***************************************************************************)

\* A map variable that was declared and never made: the nil map.
NilMap == << >>

\* The walk loop of ffauto's Complete, line for line that of the sentinel
\* variant: parse, stop on no argument or a lone "--", descend, else break.
WalkAuto(c, a, act) == WalkSentinel(c, a, act)

\* The part of ffauto's Complete after the walk, for a walk w that did not
\* fail and the token completeArg under completion: -flag=... is completed
\* for a boolean flag first and for a registered completer otherwise, then
\* flag names, then subcommand names; no argument completer is consulted and
\* no panic is recovered.
SuggestAuto(w, completeArg, cFlags) ==
  LET parent       == w.cmd
      completeFlag == /\ completeArg = << >> \/ HasPrefix(completeArg, << "-" >>)
                      /\ ~(Len(w.args) > 0 /\ w.args[Len(w.args)] = << "-", "-" >>)
      cutv         == Cut(completeArg, "=")
      isValue      == completeFlag /\ cutv.found
      flagName     == cutDash(cutv.before).flag
      flag         == Lookup(parent, flagName)
      fcomp        == IF flag # NoFlag THEN cFlags[<< parent, flagName >>] ELSE NoComp
      fwords       == IF completeFlag /\ ~cutv.found
                      THEN FlagWords(parent, completeArg, w.actual) ELSE << >>
      rest         == fwords \o SubWords(parent, completeArg)
      Res(ws, d, e) == [words |-> ws, dir |-> d, err |-> e, actual |-> w.actual]
  IN
  IF isValue /\ flag # NoFlag /\ isBoolFlag(flag)
  THEN {Res(BoolWords(cutv.after) \o rest, ShellCompDirectiveDefault, "nil")}
  ELSE IF isValue /\ fcomp # NoComp
  THEN {IF o.kind = "ok" THEN Res(o.words \o rest, o.dir, "nil")
        ELSE IF o.kind = "err"
        THEN Res(<< >>, ShellCompDirectiveDefault, "completing flag")
        ELSE Res(<< >>, ShellCompDirectiveDefault, "panicking")
        : o \in CallComp(fcomp, cutv.after)}
  ELSE {Res(rest, ShellCompDirectiveDefault, "nil")}

\* The final token of args replaced by the sentinel "--".
WithSentinel(a) ==
  IF Len(a) = 0 THEN << << "-", "-" >> >>
  ELSE [a EXCEPT ![Len(a)] = << "-", "-" >>]

\* ffauto's Complete(root, args): the set of possible results.
CompleteAuto(a, act, cFlags) ==
  LET completeArg == IF Len(a) = 0 THEN << >> ELSE a[Len(a)]
      w           == WalkAuto(root, WithSentinel(a), act)
  IN  IF w.err # "nil"
      THEN {[words |-> << >>, dir |-> ShellCompDirectiveDefault,
             err |-> w.err, actual |-> w.actual]}
      ELSE SuggestAuto(w, completeArg, cFlags)

\* The state of package ffauto after the tree is built: completeCmds is
\* declared and nothing ever makes it.
InitAuto ==
  /\ actual = [c \in Cmds |-> {}]
  /\ completeFlags =
       [k \in FlagKeys |->
          IF k = << "debug", S_enum >> THEN Fixed(<< S_alpha, S_beta, S_charlie >>)
          ELSE IF k = << "debug", S_cpu_profile >> THEN UserComp
          ELSE NoComp]
  /\ completeCmds = NilMap
  /\ pc = "idle"
  /\ args = << >>
  /\ words = << >>
  /\ dir = ShellCompDirectiveDefault
  /\ err = "nil"
  /\ stdout = << >>
  /\ callerArgs = << >>
  /\ actualBefore = [c \in Cmds |-> {}]
  /\ walk = WalkAuto(root, WithSentinel(<< >>), [c \in Cmds |-> {}])
  /\ flagCalls = << << << "debug", S_enum >>, Fixed(<< S_alpha, S_beta, S_charlie >>) >>,
                    << << "debug", S_cpu_profile >>, UserComp >> >>

\* Arg(cmd, comp): the map write completeCmds[cmd] = comp, which panics with
\* "assignment to entry in nil map" on the nil map.
Arg ==
  /\ pc = "idle"
  /\ \E c \in {root, "debug"} : \E comp \in RegComps \ {NoComp} :
       IF completeCmds = NilMap
       THEN /\ pc' = "panicked"
            /\ err' = "assignment to entry in nil map"
            /\ args' = << Name[c] >>
            /\ UNCHANGED completeCmds
       ELSE /\ completeCmds' = [completeCmds EXCEPT ![c] = comp]
            /\ UNCHANGED << pc, err, args >>
  /\ UNCHANGED << actual, completeFlags, words, dir, stdout,
                  callerArgs, actualBefore, walk, flagCalls >>

\* The requests made of ffauto's Complete.
AutoRequests ==
  {q \o << t >> : q \in {<< >>} \cup {<< x >> : x \in TypedTokens}, t \in FinalTokens}

\* A caller invokes ffauto's Complete(root, a) and receives its results.
CallCompleteAuto ==
  /\ pc = "idle"
  /\ \E a \in AutoRequests :
       \E r \in CompleteAuto(a, actual, completeFlags) :
         /\ args' = a
         /\ words' = r.words
         /\ dir' = r.dir
         /\ err' = r.err
         /\ actual' = r.actual
         /\ callerArgs' = WithSentinel(a)
         /\ walk' = WalkAuto(root, WithSentinel(a), actual)
         /\ pc' = IF r.err = "panicking" THEN "panicked" ELSE "returned"
  /\ actualBefore' = actual
  /\ UNCHANGED << completeFlags, completeCmds, stdout, flagCalls >>

NextAuto == Arg \/ CallCompleteAuto \/ Return

SpecAuto == InitAuto /\ [][NextAuto]_vars

(***************************************************************************)
(* The __complete handler of ffauto.Inject, its walk loop step by step     *)
(***************************************************************************)

\* The handler starts: it replaces the final token by the sentinel and
\* enters the walk loop at the root.
ExecInject ==
  /\ pc = "idle"
  /\ \E a \in Requests :
       /\ args' = a
       /\ callerArgs' = WithSentinel(a)
       /\ walk' = [cmd |-> root, args |-> WithSentinel(a), actual |-> actual, err |-> "nil"]
  /\ pc' = "walking"
  /\ actualBefore' = actual
  /\ UNCHANGED << actual, completeFlags, completeCmds, words, dir, err, stdout, flagCalls >>

\* One iteration of the walk loop from the state w of the walk: the state the
\* iteration leaves and where control goes, "failed" (return of the parse
\* error), "walked" (break) or "walking" (the loop's next iteration, reached
\* by continue walk and by falling out of the subcommand loop alike).
WalkIteration(w) ==
  LET p    == Parse(w.cmd, w.args, w.actual[w.cmd])
      act2 == [w.actual EXCEPT ![w.cmd] = p.set]
      sub  == MatchSub(w.cmd, p.args[1])
  IN
  IF p.err # "nil"
  THEN [pc |-> "failed", walk |-> [w EXCEPT !.actual = act2, !.err = "flag parsing"]]
  ELSE IF Len(p.args) = 0 \/ (Len(p.args) = 1 /\ p.args[1] = << "-", "-" >>)
  THEN [pc |-> "walked", walk |-> [w EXCEPT !.args = p.args, !.actual = act2]]
  ELSE IF sub # ""
  THEN [pc |-> "walking",
        walk |-> [w EXCEPT !.cmd = sub, !.args = Tail(p.args), !.actual = act2]]
  ELSE [pc |-> "walking", walk |-> [w EXCEPT !.args = p.args, !.actual = act2]]

\* The handler runs one iteration of its walk loop; a parse error ends it.
WalkIter ==
  /\ pc = "walking"
  /\ LET n == WalkIteration(walk)
     IN  /\ walk' = n.walk
         /\ actual' = n.walk.actual
         /\ pc' = IF n.pc = "failed" THEN "exited" ELSE n.pc
         /\ err' = n.walk.err
  /\ UNCHANGED << completeFlags, completeCmds, args, words, dir, stdout,
                  callerArgs, actualBefore, flagCalls >>

\* After the walk the handler completes the final token, prints the words
\* and the directive line, and returns.
Finish ==
  /\ pc = "walked"
  /\ \E r \in SuggestAuto(walk, IF args = << >> THEN << >> ELSE args[Len(args)],
                           completeFlags) :
       /\ words' = r.words
       /\ dir' = r.dir
       /\ err' = r.err
       /\ stdout' = IF r.err # "nil" THEN << >>
                    ELSE PrintWords(r.words) \o Println(<< ":" >> \o Itoa(r.dir))
       /\ pc' = IF r.err = "panicking" THEN "panicked" ELSE "exited"
  /\ UNCHANGED << actual, completeFlags, completeCmds, args,
                  callerArgs, actualBefore, walk, flagCalls >>

NextInject == ExecInject \/ WalkIter \/ Finish \/ Exit

SpecInject == Init /\ [][NextInject]_vars

(***************************************************************************)
(* splitFlagArgs against the flag parser, on token lists of their own      *)
(***************************************************************************)

\* The longest token list handed to splitFlagArgs.
MaxSplit == 3

\* The tokens of those lists: terminator, lone dash, empty and plain tokens,
\* boolean and string flags with and without "=", unknown and malformed ones.
SplitTokens ==
  { DD, << "-" >>, << >>, << "d", "e", "b" >>,
    << "-" >> \o S_v, DD \o S_root_bool, DD \o S_root_str, DD \o S_enum,
    DD \o S_root_str \o << "=", "s" >>, << "-" >> \o S_v \o << "=", "x" >>,
    DD \o << "n", "o", "p", "e", "=", "1" >>, << "-", "=" >> }

\* One level of the walk is about to run on the flag set of some command
\* with some token list; no flag is set yet.
InitSplit ==
  /\ actual = [c \in Cmds |-> {}]
  /\ completeFlags = [k \in FlagKeys |-> NoComp]
  /\ completeCmds = [c \in Cmds |-> NoComp]
  /\ pc = "idle"
  /\ args \in SeqsUpTo(SplitTokens, MaxSplit)
  /\ words = << >>
  /\ dir = ShellCompDirectiveDefault
  /\ err = "nil"
  /\ stdout = << >>
  /\ callerArgs = << >>
  /\ actualBefore = [c \in Cmds |-> {}]
  /\ \E c \in {root, "debug"} : walk = [cmd |-> c]
  /\ flagCalls = << >>

\* The level splits the tokens and parses the flag part with the flag set.
SplitAndParse ==
  /\ pc = "idle"
  /\ LET sp == splitFlagArgs(walk.cmd, args)
         p  == Parse(walk.cmd, sp.flagArgs, actual[walk.cmd])
     IN  /\ walk' = [cmd |-> walk.cmd, split |-> sp, NArg |-> Len(p.args)]
         /\ actual' = [actual EXCEPT ![walk.cmd] = p.set]
         /\ err' = IF p.err # "nil" THEN "flag parsing" ELSE "nil"
  /\ pc' = "split"
  /\ UNCHANGED << completeFlags, completeCmds, args, words, dir, stdout,
                  callerArgs, actualBefore, flagCalls >>

NextSplit == SplitAndParse

SpecSplit == InitSplit /\ [][NextSplit]_vars

(***************************************************************************)
(* Vocabulary of the properties                                            *)
(***************************************************************************)

\* The elements of a sequence.
Elems(q) == {q[i] : i \in 1..Len(q)}

\* The token under completion and the tokens typed before it.
Final == IF args = << >> THEN << >> ELSE args[Len(args)]

Typed == IF args = << >> THEN << >> ELSE SubSeq(args, 1, Len(args) - 1)

\* A request has been served and its results are at hand.
Served == pc # "idle"

\* The level the walk of the last request stopped at.  Which command that
\* is and how the level's tokens split does not depend on the set flags.
W == walk

\* The tree as constructed: no flag set.
Fresh == [c \in Cmds |-> {}]

\* The resolved level's tokens hold a bare "--" that is no flag's value:
\* splitFlagArgs dropped a token without reporting a flag needing a value.
SawDashDash ==
  /\ W.split.flagNeedingValue = << >>
  /\ Len(W.split.flagArgs) + Len(W.split.argArgs) < Len(W.level)

\* The last typed token is a flag still waiting for its value.
Pending == W.split.flagNeedingValue # << >>

\* The token under completion stands where a flag may stand: nothing ended
\* flag scanning at the resolved level and no flag waits for its value.
FlagPosition == W.args = << >> /\ ~SawDashDash /\ ~Pending

\* The one- and two-dash spellings of the flags of command c.
DashedFlags(c) == {d \o n : d \in {<< "-" >>, DD}, n \in FlagNames(c)}

\* The words Complete can return as the value of some flag.
FlagValues ==
  Elems(TrueVals) \cup Elems(FalseVals) \cup {S_alpha, S_beta, S_charlie}

\* q is p with some elements left out, order kept.
RECURSIVE IsSubseq(_, _)
IsSubseq(q, p) ==
  IF q = << >> THEN TRUE
  ELSE IF p = << >> THEN FALSE
  ELSE IF q[1] = p[1] THEN IsSubseq(Tail(q), Tail(p))
  ELSE IsSubseq(q, Tail(p))

(***************************************************************************)
(* Properties                                                              *)
(***************************************************************************)

\* C1: when the typed tokens of the resolved command's level contain a bare
\* "--" that is no flag's value and the token under completion begins with a
\* dash, Complete suggests no flag name and no flag value.
C1_NoFlagsAfterDashDash ==
  (Served /\ err = "nil" /\ SawDashDash /\ HasPrefix(Final, << "-" >>))
    => \A i \in 1..Len(words) : words[i] \notin DashedFlags(W.cmd) \cup FlagValues

\* C2: what a call returns depends only on its own arguments, not on flags
\* set by the arguments of earlier calls on the same tree: it is a result of
\* the same call on the tree as constructed.
C2_SetFlagsAreThisCallsOwn ==
  (pc = "returned")
    => \E r \in Complete(args, Fresh, completeFlags, completeCmds) :
         r.words = words /\ r.dir = dir /\ r.err = err

\* The token under completion cut at its first "=", and the flag it names.
FinalCut == Cut(Final, "=")

FinalFlag == Lookup(W.cmd, cutDash(FinalCut.before).flag)

Partial == FinalCut.after

\* The request completes -name=<partial> or --name=<partial> for a boolean
\* flag of the resolved command that has no completer, in flag position.
BoolValueCase ==
  /\ Served /\ err = "nil" /\ FlagPosition
  /\ HasPrefix(Final, << "-" >>) /\ FinalCut.found
  /\ FinalFlag # NoFlag /\ isBoolFlag(FinalFlag)
  /\ completeFlags[<< W.cmd, FinalFlag.name >>] = NoComp

\* At most the first element of a sequence.
FirstOf(q) == IF q = << >> THEN << >> ELSE << q[1] >>

\* C3 as stated: every spelling that has the prefix is returned.
C3_AllBoolSpellings ==
  BoolValueCase => words = FilterPrefix(TrueVals \o FalseVals, Partial)

\* C3, amended: a boolean flag's value completes to members of the list
\* true, TRUE, True, 1, false, FALSE, False, 0 that have the partial value as
\* a prefix, in the listed order, but not to all of them: to the first such
\* member of the four truthy spellings and the first of the four falsy ones.
C3_FirstBoolSpellings ==
  BoolValueCase =>
    words = FirstOf(FilterPrefix(TrueVals, Partial))
            \o FirstOf(FilterPrefix(FalseVals, Partial))

C3_Witness ==
  BoolValueCase /\ Partial = << "T" >> /\ words = << << "T", "R", "U", "E" >> >>

\* The indices of the spellings of group G that have the partial value as a
\* prefix.
Hits(G) == {i \in 1..Len(G) : HasPrefix(G[i], Partial)}

\* C4: a boolean flag's value completes to at most one truthy and at most one
\* falsy spelling, each the first of its group in listed order that has the
\* partial value as a prefix, the truthy one first, with directive 0; so the
\* empty partial value gives true, false and "T" gives TRUE.
C4_OnePerGroup ==
  BoolValueCase =>
    /\ dir = ShellCompDirectiveDefault
    /\ Len(words) <= 2
    /\ Cardinality(Elems(words)) = Len(words)
    /\ Elems(words) \subseteq Elems(TrueVals) \cup Elems(FalseVals)
    /\ \A G \in {TrueVals, FalseVals} :
         Elems(words) \cap Elems(G) =
           IF Hits(G) = {} THEN {}
           ELSE {G[CHOOSE i \in Hits(G) : \A j \in Hits(G) : i <= j]}
    /\ \A i, j \in 1..Len(words) :
         (words[i] \in Elems(FalseVals) /\ words[j] \in Elems(TrueVals)) => j < i
    /\ (Partial = << >> => words = << TrueVals[1], FalseVals[1] >>)
    /\ (Partial = << "T" >> => words = << TrueVals[2] >>)

C4_Witness ==
  BoolValueCase /\ Partial = << >> /\ words = << TrueVals[1], FalseVals[1] >>

\* A word that spells a flag of the resolved command, with or without dashes.
IsFlagWord(word) == cutDash(word).flag \in FlagNames(W.cmd)

\* The request completes a token of exactly one dash and no "=", in flag
\* position.
SingleDashCase ==
  /\ Served /\ err = "nil" /\ FlagPosition
  /\ cutDash(Final).dashes = << "-" >> /\ ~Contains(Final, "=")

\* C5 as stated: after one dash, every flag is suggested with one dash.
C5_SingleDashKept ==
  SingleDashCase =>
    \A i \in 1..Len(words) :
      IsFlagWord(words[i]) => cutDash(words[i]).dashes = << "-" >>

\* C5, amended: when the token under completion is one dash followed by at
\* least one character, every flag-name suggestion begins with exactly one
\* dash whatever the length of the flag's name; for the token "-" alone only
\* the one-character flags do, and longer names are suggested with two.
C5_SingleDashUnlessBare ==
  SingleDashCase =>
    \A i \in 1..Len(words) :
      IsFlagWord(words[i]) =>
        cutDash(words[i]).dashes =
          IF Final = << "-" >> /\ Len(cutDash(words[i]).flag) > 1
          THEN DD ELSE << "-" >>

C5_Witness ==
  /\ SingleDashCase /\ Final = << "-", "r" >>
  /\ words = << << "-" >> \o S_root_bool, << "-" >> \o S_root_str >>

\* The request completes the empty token in flag position.
EmptyCase == Served /\ err = "nil" /\ FlagPosition /\ Final = << >>

\* C6: for the empty token every flag of the resolved command that is not
\* set is suggested with dashes, --name for names longer than one character
\* and -n for one-character names, and none as a bare name.
C6_EmptyTokenDashes ==
  EmptyCase =>
    \A n \in FlagNames(W.cmd) \ actual[W.cmd] :
      /\ (IF Len(n) > 1 THEN DD \o n ELSE << "-" >> \o n) \in Elems(words)
      /\ n \notin Elems(words)

\* The flag names among the suggestions, in the order suggested.
RECURSIVE NamesIn(_)
NamesIn(ws) ==
  IF ws = << >> THEN << >>
  ELSE (IF IsFlagWord(ws[1]) THEN << cutDash(ws[1]).flag >> ELSE << >>)
       \o NamesIn(Tail(ws))

\* The flag names of command c in the order they were registered.
Registered(c) == [i \in 1..Len(Formal[c]) |-> Formal[c][i].name]

\* C7 as stated: flag names are suggested in registration order.
C7_RegistrationOrder ==
  (Served /\ err = "nil") => IsSubseq(NamesIn(words), Registered(W.cmd))

\* C7, amended: flag-name suggestions are emitted in the lexicographical
\* (byte) order of the flag names, in which FlagSet.VisitAll visits them,
\* whatever the order of registration (root-bool, root-str, v on the tree of
\* the test, which registers v first).
C7_LexicographicalOrder ==
  (Served /\ err = "nil") =>
    \A i, j \in 1..Len(NamesIn(words)) :
      i < j => StrLess(NamesIn(words)[i], NamesIn(words)[j])

C7_Witness ==
  /\ Served /\ err = "nil" /\ args = << DD >>
  /\ words = << DD \o S_root_bool, DD \o S_root_str, DD \o S_v >>

\* Go's flag parsing, level by level, meets a flag that the command of the
\* level does not define, before any error of another kind.
RECURSIVE UnknownFlagTyped(_, _)
UnknownFlagTyped(c, toks) ==
  LET p == Parse(c, toks, {})
  IN  IF p.err = "flag provided but not defined" THEN TRUE
      ELSE IF p.err # "nil" \/ p.args = << >> THEN FALSE
      ELSE IF MatchSub(c, p.args[1]) = "" THEN FALSE
      ELSE UnknownFlagTyped(MatchSub(c, p.args[1]), Tail(p.args))

\* C8: a typed token in flag position that names a flag the current command
\* does not define makes Complete fail, with no suggestions.
C8_UnknownFlagFails ==
  (Served /\ UnknownFlagTyped(root, Typed)) => (err # "nil" /\ words = << >>)

\* C9: whenever Complete returns an error, by any path, it returns no
\* suggestions and directive 0 with it.
C9_ErrorMeansEmpty ==
  (Served /\ err # "nil") => (words = << >> /\ dir = ShellCompDirectiveDefault)

\* C10: when Complete fails, __complete prints no suggestion and one final
\* line ":<n>" whose n has the Error bit set.
C10_ErrorDirectivePrinted ==
  (pc = "exited" /\ err # "nil") =>
    \E n \in 0..(2 * ShellCompDirectiveKeepOrder - 1) :
      /\ (n \div ShellCompDirectiveError) % 2 = 1
      /\ stdout = << ":" >> \o Itoa(n) \o << "\n" >>

\* The words the argument completer of the resolved command can return for
\* the token under completion.
ArgResults ==
  IF completeCmds[W.cmd] = NoComp THEN {}
  ELSE UNION {Elems(o.words) :
                o \in {x \in CallComp(completeCmds[W.cmd], W.completeArg) : x.kind = "ok"}}

\* The names of the subcommands of the resolved command.
SubNames == {Name[Subcommands[W.cmd][i]] : i \in 1..Len(Subcommands[W.cmd])}

\* C11: when the token under completion is not empty and does not begin with
\* a dash, and no flag waits for its value, no flag name is suggested: every
\* word returned is a subcommand name of the resolved command or a result of
\* its argument completer.
C11_PlainTokenNoFlagNames ==
  (Served /\ err = "nil" /\ Final # << >> /\ ~HasPrefix(Final, << "-" >>) /\ ~Pending)
    => \A i \in 1..Len(words) : words[i] \in SubNames \cup ArgResults

\* The flag that waits for its value, as typed and as a flag of the resolved
\* command, and the completer registered for it.
PendingToken == W.split.flagNeedingValue

PendingFlag == Lookup(W.cmd, cutDash(PendingToken).flag)

PendingComp ==
  IF PendingFlag = NoFlag THEN NoComp ELSE completeFlags[<< W.cmd, PendingFlag.name >>]

\* The outcomes of a completer in which it returns suggestions.
OkOutcomes(comp, word) == {o \in CallComp(comp, word) : o.kind = "ok"}

\* The request with the pending flag and the token under completion joined
\* into the single final token <flag>=<partial>.
Joined ==
  IF Typed = << >> THEN args
  ELSE SubSeq(Typed, 1, Len(Typed) - 1) \o << Typed[Len(Typed)] \o << "=" >> \o Final >>

\* C12: in the sentinel variant, for a non-boolean flag with a registered
\* completer typed as the last token before the token under completion, the
\* call returns the suggestions and the directive of the completer called
\* with the token under completion, as completing --name=<partial> does.
C12_SentinelTwoTokenValue ==
  (Served /\ err = "nil" /\ Pending /\ PendingComp # NoComp)
    => /\ \E o \in OkOutcomes(PendingComp, Final) : words = o.words /\ dir = o.dir
       /\ \E r \in CompleteSentinel(Joined, actualBefore, completeFlags, completeCmds) :
            r.words = words /\ r.dir = dir /\ r.err = err

\* Go's flag parsing of the tokens, level by level as ffcli runs it: the
\* command it stops at and the error it stops with, if any.
RECURSIVE ParseLevels(_, _)
ParseLevels(c, toks) ==
  LET p   == Parse(c, toks, {})
      sub == MatchSub(c, p.args[1])
  IN  IF p.err # "nil" \/ p.args = << >> THEN [cmd |-> c, err |-> p.err]
      ELSE IF sub = "" THEN [cmd |-> c, err |-> "nil"]
      ELSE ParseLevels(sub, Tail(p.args))

\* The last typed token is a known non-boolean flag in flag position that has
\* no inline "=": all that Go's flag parsing of the typed tokens lacks is that
\* flag's value.
ValueMissing == ParseLevels(root, Typed).err = "flag needs an argument"

\* The results of a set of calls, without the state they leave behind.
ResultsOf(S) == {<< r.words, r.dir, r.err >> : r \in S}

C14_CallerSliceKept ==
  Served => callerArgs = args

\* C15: a call changes nothing in the command tree but a nil flag set: on
\* every command the flags that are set after the call are those that were
\* set before it.
C15_TreeFlagsUntouched ==
  Served => \A c \in Cmds : actual[c] = actualBefore[c]

\* The flags of the resolved command that the typed tokens of the request
\* set, whatever was set before.
TypedSet == Walk(root, Typed, Final, Fresh).actual[W.cmd]

\* The request completes a flag name: the token under completion is empty or
\* begins with a dash, has no "=", and stands in flag position.
FlagNameCase ==
  /\ Served /\ err = "nil" /\ FlagPosition
  /\ Final = << >> \/ HasPrefix(Final, << "-" >>)
  /\ ~Contains(Final, "=")

\* The flag names that the words spell, with or without dashes.
Spelled == {cutDash(words[i]).flag : i \in 1..Len(words)}

\* C16: when a flag name is completed, no flag that the typed tokens of the
\* request set on the resolved command is suggested, and every other flag of
\* that command whose name has the typed partial name as a prefix is.
C16_ExactlyUnsetFlags ==
  FlagNameCase =>
    \A n \in FlagNames(W.cmd) :
      IF n \in TypedSet THEN n \notin Spelled
      ELSE HasPrefix(n, cutDash(Final).flag) => n \in Spelled

\* C17: a "--" that directly follows the non-boolean flag --root-str given
\* without "=" is taken as that flag's value and does not end flag scanning:
\* with the typed tokens --root-str, -- the flag root-str counts as set and
\* the token --root or --r is completed to the flag name --root-bool alone.
C17_DashDashAsValue ==
  (Served /\ Typed = << DD \o S_root_str, DD >>
          /\ Final \in {DD \o << "r", "o", "o", "t" >>, DD \o << "r" >>})
    => /\ err = "nil"
       /\ S_root_str \in actual[root]
       /\ words = << DD \o S_root_bool >>

\* The request completes -name=<partial> or --name=<partial> in flag position
\* for a flag of the resolved command that has a registered completer.
FinalComp ==
  IF FinalFlag = NoFlag THEN NoComp ELSE completeFlags[<< W.cmd, FinalFlag.name >>]

CompleterValueCase ==
  /\ Served /\ FlagPosition
  /\ HasPrefix(Final, << "-" >>) /\ FinalCut.found
  /\ FinalComp # NoComp

\* C18: completing -name=<partial> in flag position for a flag with a
\* registered completer returns exactly the words and the directive that the
\* completer returns for <partial>, nothing is added to them, and the
\* argument completer of the command is not invoked.
C18_FlagCompleterAlone ==
  CompleterValueCase =>
    /\ err = "nil" =>
         \E o \in OkOutcomes(FinalComp, Partial) : words = o.words /\ dir = o.dir
    /\ err # "completing args"

C18_Witness ==
  /\ CompleterValueCase /\ err = "nil"
  /\ args = << << "d", "e", "b", "u", "g" >>, DD \o S_enum \o << "=", "a", "l" >> >>
  /\ completeCmds[W.cmd] # NoComp
  /\ words = << S_alpha >> /\ dir = ShellCompDirectiveNoFileComp

\* The request completes a flag's value: the walk left no argument and the
\* token to complete, with a pending flag folded in, is -name=<partial>.
ValueStage ==
  /\ W.args = << >>
  /\ HasPrefix(W.completeArg, << "-" >>) /\ Contains(W.completeArg, "=")

\* The names of the subcommands of the resolved command, in child order.
ChildNames == [i \in 1..Len(Subcommands[W.cmd]) |-> Name[Subcommands[W.cmd][i]]]

\* The word sequences the argument completer of the resolved command can
\* return for the token under completion; the empty one if there is none.
ArgResultSeqs ==
  IF completeCmds[W.cmd] = NoComp THEN {<< >>}
  ELSE {o.words : o \in OkOutcomes(completeCmds[W.cmd], W.completeArg)}

\* C19: unless a flag's value is completed, the words are the flag-name
\* suggestions, then names of subcommands of the resolved command in child
\* order, then the results of the argument completer in the order it
\* returned them.
C19_GroupsInOrder ==
  (Served /\ err = "nil" /\ ~ValueStage) =>
    \E i, j \in 0..Len(words) :
      /\ i <= j
      /\ \A k \in 1..i : words[k] \in DashedFlags(W.cmd) \cup FlagNames(W.cmd)
      /\ IsSubseq(SubSeq(words, i + 1, j), ChildNames)
      /\ SubSeq(words, j + 1, Len(words)) \in ArgResultSeqs

C19_Witness ==
  /\ Served /\ err = "nil" /\ ~ValueStage
  /\ args = << << >> >>
  /\ words = << DD \o S_root_bool, DD \o S_root_str, S_v,
                Name["debug"], Name["completion"], S_deploy, S_debrief >>

\* C20: a panic raised while Complete runs, in a registered flag or argument
\* completer, never leaves Complete: the call returns with an error.
C20_PanicsRecovered ==
  /\ pc # "panicked"
  /\ err # "panicking"

C20_Witness ==
  /\ pc = "returned" /\ err = "panic"
  /\ args = << << "d", "e", "b", "u", "g" >>, DD \o S_cpu_profile \o << "=" >> >>

\* C21: a second call with the same argument vector, on the tree as the first
\* call left it, has the results of the first call (words, directive and
\* error, per outcome of the completer it invokes) and leaves the tree as it
\* found it.
C21_SecondCallSame ==
  (pc = "returned") =>
    LET again == Complete(args, actual, completeFlags, completeCmds)
    IN  /\ ResultsOf(again)
             = ResultsOf(Complete(args, actualBefore, completeFlags, completeCmds))
        /\ << words, dir, err >> \in ResultsOf(again)
        /\ \A r \in again : r.actual = actual

C21_Witness ==
  /\ pc = "returned" /\ err = "nil"
  /\ args = << << "-" >> \o S_v, << "-" >> >>
  /\ actualBefore[root] = {} /\ actual[root] = {S_v}
  /\ words = << DD \o S_root_bool, DD \o S_root_str >>
  /\ ResultsOf(Complete(args, actual, completeFlags, completeCmds))
       = {<< words, dir, err >>}

\* Command c is the first child of p, in child order, whose whole name equals
\* the token under case folding.
FirstChildNamed(p, c, tok) ==
  \E k \in 1..Len(Subcommands[p]) :
    /\ Subcommands[p][k] = c
    /\ EqualFold(Name[c], tok)
    /\ \A j \in 1..(k - 1) : ~EqualFold(Name[Subcommands[p][j]], tok)

\* C22: the walk descends only into the first child whose whole name equals a
\* typed token under case folding and stops at the first token that names no
\* child; the command it resolves is that of Go's level-by-level parsing of
\* the typed tokens, whatever the token under completion and the flags set
\* before, and the same in both variants.
C22_WalkByWholeNames ==
  Served =>
    /\ W.cmd # root =>
         \E p \in Cmds, i \in 1..Len(Typed) : FirstChildNamed(p, W.cmd, Typed[i])
    /\ (W.err = "nil" /\ W.args # << >>) =>
         \A k \in 1..Len(Subcommands[W.cmd]) :
           ~EqualFold(Name[Subcommands[W.cmd][k]], W.args[1])
    /\ W.cmd = ParseLevels(root, Typed).cmd
    /\ Walk(root, Typed, << >>, Fresh).cmd = W.cmd
    /\ WalkSentinel(root, Typed \o << DD >>, Fresh).cmd = W.cmd

C22_Witness ==
  /\ Served
  /\ Typed = << << "D", "E", "B", "U", "G" >>, << "d", "e", "b" >> >>
  /\ W.cmd = "debug" /\ W.args = << << "d", "e", "b" >> >>

\* The command Go's level-by-level parsing of the typed tokens resolves.
Resolved == ParseLevels(root, Typed).cmd

\* Every word the argument completer registered for command c can return.
ArgWordsOf(c) ==
  IF completeCmds[c] = NoComp THEN {}
  ELSE UNION {Elems(o.words) : o \in OkOutcomes(completeCmds[c], << >>)}

\* The argument completer registered for command c can return an error.
ArgCompCanFail(c) ==
  completeCmds[c] # NoComp /\ \E o \in CallComp(completeCmds[c], << >>) : o.kind = "err"

\* C23: the only argument completer a call invokes is that of the resolved
\* command: no word of the completer of the root, of another ancestor or of
\* any other command is returned, and the call fails in completing arguments
\* only if the resolved command's own completer fails.
C23_OnlyResolvedArgsCompleter ==
  Served =>
    /\ err = "nil" =>
         \A c \in Cmds \ {Resolved} : Elems(words) \cap ArgWordsOf(c) = {}
    /\ err = "completing args" => ArgCompCanFail(Resolved)

C23_Witness ==
  /\ Served /\ err = "nil"
  /\ args = << << "d", "e", "b", "u", "g" >>, << >> >>
  /\ Resolved = "debug"
  /\ ArgWordsOf(root) = {S_deploy, S_debrief}
  /\ words[Len(words)] = << "x" >>

\* The completer the request hands its token to: in the value stage the one
\* registered for the flag of the resolved command named before the "=",
\* otherwise the argument completer of the resolved command.
ValueFlag == Lookup(Resolved, cutDash(Cut(W.completeArg, "=").before).flag)

Invoked ==
  IF ValueStage
  THEN IF ValueFlag = NoFlag THEN NoComp ELSE completeFlags[<< Resolved, ValueFlag.name >>]
  ELSE completeCmds[Resolved]

InvokedWord == IF ValueStage THEN Cut(W.completeArg, "=").after ELSE W.completeArg

\* C24: the directive is 0 when the call fails and when it invoked no
\* registered completer (flag names, boolean values and subcommand names set
\* no bit); otherwise it is the directive the invoked completer returned; the
\* Error bit is never set.
C24_DirectiveFromCompleter ==
  Served =>
    /\ err # "nil" => dir = ShellCompDirectiveDefault
    /\ (err = "nil" /\ Invoked = NoComp) => dir = ShellCompDirectiveDefault
    /\ (err = "nil" /\ Invoked # NoComp) =>
         \E o \in OkOutcomes(Invoked, InvokedWord) : dir = o.dir
    /\ (dir \div ShellCompDirectiveError) % 2 = 0

C24_Witness ==
  /\ Served /\ err = "nil"
  /\ args = << << "d", "e", "b", "u", "g" >>, << "a", "l" >> >>
  /\ Invoked = UserComp
  /\ words = << << "x" >> >> /\ dir = ShellCompDirectiveFilterDirs

C24_WitnessNone ==
  /\ Served /\ err = "nil" /\ Invoked = NoComp
  /\ words # << >> /\ dir = ShellCompDirectiveDefault

\* The completer of the last call of Flag for key k; NoComp if there is none.
RECURSIVE LastFlagCall(_, _)
LastFlagCall(calls, k) ==
  IF calls = << >> THEN NoComp
  ELSE IF calls[Len(calls)][1] = k THEN calls[Len(calls)][2]
  ELSE LastFlagCall(SubSeq(calls, 1, Len(calls) - 1), k)

\* The flag whose value the request completes, as a registry key.
FinalKey == << W.cmd, FinalFlag.name >>

\* C25: Flag replaces an earlier registration: the completion of a flag's
\* value is the result of the completer of the last Flag call for that flag
\* applied to the partial value, whatever was registered for it before and
\* whatever was registered for other flags before or after.
C25_LastFlagWins ==
  (pc = "returned" /\ FlagPosition /\ FinalCut.found /\ FinalFlag # NoFlag
     /\ LastFlagCall(flagCalls, FinalKey) # NoComp) =>
    /\ err = "nil" =>
         \E o \in OkOutcomes(LastFlagCall(flagCalls, FinalKey), Partial) :
           words = o.words /\ dir = o.dir
    /\ err # "nil" =>
         \E o \in CallComp(LastFlagCall(flagCalls, FinalKey), Partial) : o.kind # "ok"

C25_Witness ==
  /\ pc = "returned" /\ err = "nil"
  /\ args = << << "d", "e", "b", "u", "g" >>, DD \o S_enum \o << "=", "d", "e" >> >>
  /\ Len(flagCalls) = 4
  /\ flagCalls[3] = << << "debug", S_enum >>, Fixed(<< S_deploy, S_debrief >>) >>
  /\ flagCalls[4][1] = << "debug", S_cpu_profile >>
  /\ words = << S_deploy, S_debrief >>

\* The lines of a text: the runs of characters each ended by a newline.
RECURSIVE LinesFrom(_, _)
LinesFrom(out, line) ==
  IF out = << >> THEN (IF line = << >> THEN << >> ELSE << line >>)
  ELSE IF out[1] = "\n" THEN << line >> \o LinesFrom(Tail(out), << >>)
  ELSE LinesFrom(Tail(out), Append(line, out[1]))

LinesOf(out) == LinesFrom(out, << >>)

\* The number a string of decimal digits denotes; -1 if it is not one.
RECURSIVE Atoi(_)
Atoi(s) ==
  IF s = << >> \/ \E i \in 1..Len(s) : \A d \in 1..Len(Digits) : Digits[d] # s[i]
  THEN -1
  ELSE LET last == (CHOOSE d \in 1..Len(Digits) : Digits[d] = s[Len(s)]) - 1
       IN  IF Len(s) = 1 THEN last
           ELSE Len(Digits) * Atoi(SubSeq(s, 1, Len(s) - 1)) + last

\* C26: on success __complete writes one line per suggestion, in Complete's
\* order, then one last line ":<n>" with n the directive in decimal without
\* leading zeros (":0" for the default directive, ":4" for NoFileComp), and
\* nothing after its newline.
C26_OneLinePerWord ==
  (pc = "exited" /\ err = "nil") =>
    LET ls == LinesOf(stdout)
        n  == Len(words)
    IN  /\ stdout # << >> /\ stdout[Len(stdout)] = "\n"
        /\ Len(ls) = n + 1
        /\ SubSeq(ls, 1, n) = words
        /\ Len(ls[n + 1]) >= 2 /\ ls[n + 1][1] = ":"
        /\ Atoi(Tail(ls[n + 1])) = dir
        /\ (Len(ls[n + 1]) > 2 => ls[n + 1][2] # "0")
        /\ (dir = ShellCompDirectiveDefault => ls[n + 1] = << ":", "0" >>)
        /\ (dir = ShellCompDirectiveNoFileComp => ls[n + 1] = << ":", "4" >>)

C26_Witness ==
  /\ pc = "exited" /\ err = "nil"
  /\ args = << << "d", "e", "b" >> >>
  /\ words = << << "d", "e", "b", "u", "g" >>, S_debrief >>
  /\ dir = ShellCompDirectiveNoFileComp
  /\ stdout = << "d", "e", "b", "u", "g", "\n" >> \o S_debrief \o << "\n", ":", "4", "\n" >>

C26_WitnessTwoDigits ==
  /\ pc = "exited" /\ err = "nil" /\ dir = ShellCompDirectiveFilterDirs
  /\ LinesOf(stdout)[Len(words) + 1] = << ":", "1", "6" >>

\* The words the completer registered through Arg for the resolved command
\* returns for the final token.
ArgRegistered == W.cmd \in DOMAIN completeCmds /\ completeCmds[W.cmd] # NoComp

\* C27: in package ffauto, Arg returns without failing, and a later Complete
\* call whose resolved command has a completer registered through Arg
\* includes that completer's suggestions for the final token.
C27_ArgRegisters ==
  /\ ~(pc = "panicked" /\ err = "assignment to entry in nil map")
  /\ (pc = "returned" /\ err = "nil" /\ ArgRegistered) =>
       \E o \in OkOutcomes(completeCmds[W.cmd], Final) :
         \A i \in 1..Len(o.words) : o.words[i] \in Elems(words)

\* C28: the walk of the handler injected by ffauto.Inject terminates: while
\* the handler is in its walk loop, the next iteration ends the loop (break
\* or return of an error) or consumes a token of the argument list.
C28_WalkTerminates ==
  (pc = "walking") =>
    \/ WalkIteration(walk).pc # "walking"
    \/ Len(WalkIteration(walk).walk.args) < Len(walk.args)

\* The handler is in its walk loop and an iteration leaves everything as it
\* found it: every later iteration does the same.
WalkStuck ==
  pc = "walking" /\ WalkIteration(walk) = [pc |-> "walking", walk |-> walk]

\* C29: splitFlagArgs finds the split as the flag parser does: whenever the
\* parser accepts the returned flagArgs it consumes all of them, leaving no
\* positional argument (NArg is 0).
C29_ParserLeavesNothing ==
  (pc = "split" /\ err = "nil") => walk.NArg = 0

C29_Witness ==
  /\ pc = "split" /\ err = "nil" /\ walk.cmd = root
  /\ args = << DD \o S_root_str, DD, << "-" >> \o S_v >>
  /\ walk.split.flagArgs = args
  /\ actual[root] = {S_root_str, S_v}
  /\ walk.NArg = 0

\* The tokens of the list that are in neither flagArgs nor argArgs.
SplitMissing == Len(args) - Len(walk.split.flagArgs) - Len(walk.split.argArgs)

\* C30: splitFlagArgs keeps the tokens and their order: flagArgs is a prefix
\* and argArgs a suffix of the list, at most one token is in neither, and
\* that token is the last one returned as flagNeedingValue (a known
\* non-boolean flag without "=", argArgs then empty) or a bare "--" between
\* the two; otherwise flagArgs followed by argArgs is the list.
C30_SplitPartitions ==
  (pc = "split") =>
    LET sp == walk.split
        fa == sp.flagArgs
        aa == sp.argArgs
    IN  /\ SplitMissing \in {0, 1}
        /\ fa = SubSeq(args, 1, Len(fa))
        /\ aa = SubSeq(args, Len(args) - Len(aa) + 1, Len(args))
        /\ sp.flagNeedingValue # << >> =>
             /\ SplitMissing = 1 /\ aa = << >>
             /\ sp.flagNeedingValue = args[Len(args)]
             /\ ~Contains(sp.flagNeedingValue, "=")
             /\ Lookup(walk.cmd, cutDash(sp.flagNeedingValue).flag) # NoFlag
             /\ ~isBoolFlag(Lookup(walk.cmd, cutDash(sp.flagNeedingValue).flag))
        /\ (sp.flagNeedingValue = << >> /\ SplitMissing = 1) => args[Len(fa) + 1] = DD
        /\ SplitMissing = 0 => fa \o aa = args

C30_Witness ==
  /\ pc = "split" /\ walk.cmd = root
  /\ args = << << "-" >> \o S_v, DD, DD \o S_root_str >>
  /\ walk.split = [flagArgs |-> << << "-" >> \o S_v >>,
                   argArgs |-> << DD \o S_root_str >>,
                   flagNeedingValue |-> << >>]

C30_WitnessPending ==
  /\ pc = "split" /\ walk.cmd = root
  /\ args = << << "-" >> \o S_v, DD \o S_root_str >>
  /\ walk.split = [flagArgs |-> << << "-" >> \o S_v >>,
                   argArgs |-> << >>,
                   flagNeedingValue |-> DD \o S_root_str]

====
